---- MODULE Spec2Model ----
(***************************************************************************)
(* drishti-hci (src/app/hci/hci.cpp): the command line driver that pulls   *)
(* frames from a video source, runs them through the GPU face finder,      *)
(* optionally displays them and optionally records them to a movie sink.   *)
(*                                                                         *)
(* The main thread (drishti_main) is a sequential program whose position   *)
(* is pc; the recording sink's finalization runs on a thread of its own.   *)
(* Every call the driver makes on one of its collaborators is appended to  *)
(* log, in program order.                                                  *)
(***************************************************************************)
EXTENDS Integers, Sequences, FiniteSets, TLC

(***************************************************************************)
(* Bounds of the model.                                                    *)
(***************************************************************************)
MaxFrames == 3

(***************************************************************************)
(* Program constants.                                                      *)
(***************************************************************************)
StatusOk == 0
StatusConfigError == 1
StatusNoFrames == 0 - 1
DefaultWidth == 640
DefaultHeight == 480
Npos == 0 - 1

(***************************************************************************)
(* Strings are sequences of characters.  Marker is the literal ".test".    *)
(***************************************************************************)
Marker == <<".", "t", "e", "s", "t">>

RECURSIVE FindFrom(_, _, _)
FindFrom(s, pat, i) ==
    IF i + Len(pat) > Len(s) THEN Npos
    ELSE IF SubSeq(s, i + 1, i + Len(pat)) = pat THEN i
    ELSE FindFrom(s, pat, i + 1)

\* std::string::find: the 0-based position of the first occurrence, or npos.
Find(s, pat) == FindFrom(s, pat, 0)

\* operator! applied to the std::size_t that find returns.
Not(n) == n = 0

InputPaths ==
    { <<>>, <<"a">>, Marker, <<"a">> \o Marker, Marker \o <<"a">> }

OutputPaths == { <<>>, <<"o">> }

ModelPaths == { "empty", "absent", "present" }

FrameSizes == { <<640, 480>>, <<320, 240>> }

(***************************************************************************)
(* Frames.  An empty frame is a frame whose image has no pixels.           *)
(***************************************************************************)
Empty == [idx |-> 0 - 1, cols |-> 0, rows |-> 0]

NoVideo == [n |-> 0, cols |-> 0, rows |-> 0]

\* VideoSourceCV::operator()(i): frame i of the source, empty past its end.
Pull(v, i) ==
    IF i < v.n THEN [idx |-> i, cols |-> v.cols, rows |-> v.rows] ELSE Empty

Op(name, a, b) == [op |-> name, a |-> a, b |-> b]

VARIABLES
    args,       \* the parsed command line and what the file system answers
    pc,         \* position of the main thread in drishti_main
    status,     \* the value drishti_main returned, "none" while it runs
    opengl,     \* GLResource: kind, size, whether it is current, loop state
    video,      \* the frame source opened on sInput
    counter,    \* std::size_t counter
    frame,      \* the frame last pulled
    detector,   \* index of the frame the face finder analysed last, -1 none
    sink,       \* "null" or the state of the VideoSinkCV
    display,    \* whether the ogles_gpgpu::Disp exists
    s,          \* the Semaphore of the teardown: "none" or its count
    log         \* the calls made so far, in order

vars == <<args, pc, status, opengl, video, counter, frame, detector, sink,
          display, s, log>>

NoContext ==
    [kind |-> "none", cols |-> 0, rows |-> 0, current |-> FALSE,
     state |-> "Uninitialized"]

Args ==
    { a \in [showHelp : BOOLEAN, sOutput : OutputPaths, dirOk : BOOLEAN,
             sInput : InputPaths, inputExists : BOOLEAN,
             models : [1..4 -> ModelPaths],
             doWindow : BOOLEAN, doMovie : BOOLEAN] :
        /\ (a.sOutput = <<>>) => ~a.dirOk
        /\ (a.sInput = <<>>) => ~a.inputExists }

Init ==
    /\ args \in Args
    /\ pc = "parse"
    /\ status = "none"
    /\ opengl = NoContext
    /\ video = NoVideo
    /\ counter = 0
    /\ frame = Empty
    /\ detector = 0 - 1
    /\ sink = "null"
    /\ display = FALSE
    /\ s = "none"
    /\ log = <<>>

Return(code) ==
    /\ pc' = "done"
    /\ status' = code

(***************************************************************************)
(* Command line parsing and argument checking.                             *)
(***************************************************************************)
ParseArguments ==
    /\ pc = "parse"
    /\ IF args.showHelp THEN Return(StatusOk)
       ELSE /\ pc' = "checkOutput"
            /\ UNCHANGED status
    /\ UNCHANGED <<args, opengl, video, counter, frame, detector, sink,
                   display, s, log>>

OutputRejected(sOutput, dirOk) == sOutput = <<>> \/ ~dirOk

CheckOutput ==
    /\ pc = "checkOutput"
    /\ IF OutputRejected(args.sOutput, args.dirOk)
       THEN Return(StatusConfigError)
       ELSE /\ pc' = "checkInput"
            /\ UNCHANGED status
    /\ UNCHANGED <<args, opengl, video, counter, frame, detector, sink,
                   display, s, log>>

InputRejected(sInput, exists) ==
    \/ sInput = <<>>
    \/ Not(Find(sInput, Marker)) /\ ~exists

CheckInput ==
    /\ pc = "checkInput"
    /\ IF InputRejected(args.sInput, args.inputExists)
       THEN Return(StatusConfigError)
       ELSE /\ pc' = "checkModels"
            /\ UNCHANGED status
    /\ UNCHANGED <<args, opengl, video, counter, frame, detector, sink,
                   display, s, log>>

checkModel(sModel) ==
    IF sModel = "empty" THEN TRUE
    ELSE IF sModel # "present" THEN TRUE
    ELSE FALSE

CheckModels ==
    /\ pc = "checkModels"
    /\ IF \E i \in 1..4 : checkModel(args.models[i])
       THEN Return(StatusConfigError)
       ELSE /\ pc' = "context"
            /\ UNCHANGED status
    /\ UNCHANGED <<args, opengl, video, counter, frame, detector, sink,
                   display, s, log>>

(***************************************************************************)
(* Render context, frame source and first frame.                           *)
(***************************************************************************)
\* GLResource::GLResource: a window when doWindow, a headless context else.
GLResource(doWindow) ==
    IF doWindow
    THEN [kind |-> "window", cols |-> DefaultWidth, rows |-> DefaultHeight,
          current |-> FALSE, state |-> "Ready"]
    ELSE [kind |-> "headless", cols |-> 0, rows |-> 0,
          current |-> FALSE, state |-> "Ready"]

CreateContext ==
    /\ pc = "context"
    /\ opengl' = GLResource(args.doWindow)
    /\ log' = Append(log, Op("GLResource", opengl'.cols, opengl'.rows))
    /\ pc' = "video"
    /\ UNCHANGED <<args, status, video, counter, frame, detector, sink,
                   display, s>>

\* The sources VideoSourceCV::create can return for the input: a path that
\* names no file and no test sequence yields a source without frames.
VideoSources(sInput, exists) ==
    { v \in [n : 0..MaxFrames, cols : {640, 320}, rows : {480, 240}] :
        /\ <<v.cols, v.rows>> \in FrameSizes
        /\ (~exists /\ Find(sInput, Marker) = Npos) => v.n = 0 }

OpenVideo ==
    /\ pc = "video"
    /\ video' \in VideoSources(args.sInput, args.inputExists)
    /\ log' = Append(log, Op("create", video'.n, 0))
    /\ pc' = "firstPull"
    /\ UNCHANGED <<args, status, opengl, counter, frame, detector, sink,
                   display, s>>

IsEmpty(f) == f.cols = 0 \/ f.rows = 0

\* The counter after the pull that retrieves the first frame: (*video)(counter).
CounterAfterFirstPullInc(c) == c + 1
CounterAfterFirstPull(c) == c

\* Whether drishti_main gives up after the first pull.
NoFramesNever(f) == FALSE
NoFrames(f) == IsEmpty(f)

FirstPull ==
    /\ pc = "firstPull"
    /\ frame' = Pull(video, 0)
    /\ counter' = CounterAfterFirstPull(0)
    /\ log' = Append(log, Op("pull", 0, frame'.idx))
    /\ IF NoFrames(frame')
       THEN Return(StatusNoFrames)
       ELSE /\ pc' = "resize"
            /\ UNCHANGED status
    /\ UNCHANGED <<args, opengl, video, detector, sink, display, s>>

\* The arguments of opengl.resize(frame.cols(), frame.rows()).
ResizeArgsDefault(f) == <<DefaultWidth, DefaultHeight>>
ResizeArgs(f) == <<f.cols, f.rows>>

\* GLResource::resize: only a window is resized.
Resize ==
    /\ pc = "resize"
    /\ opengl' = IF opengl.kind = "window"
                 THEN [opengl EXCEPT !.cols = ResizeArgs(frame)[1],
                                     !.rows = ResizeArgs(frame)[2]]
                 ELSE opengl
    /\ log' = Append(log, Op("resize", ResizeArgs(frame)[1],
                                       ResizeArgs(frame)[2]))
    /\ pc' = "activate"
    /\ UNCHANGED <<args, status, video, counter, frame, detector, sink,
                   display, s>>

\* opengl(): make the context current.
Activate ==
    /\ pc = "activate"
    /\ opengl' = [opengl EXCEPT !.current = TRUE]
    /\ log' = Append(log, Op("makeCurrent", 0, 0))
    /\ pc' = "detector"
    /\ UNCHANGED <<args, status, video, counter, frame, detector, sink,
                   display, s>>

\* FaceFinderPainter::create and the swizzle source: the first GPU resources.
AllocateDetector ==
    /\ pc = "detector"
    /\ log' = Append(log, Op("FaceFinderPainter", 0, 0))
    /\ pc' = "sink"
    /\ UNCHANGED <<args, status, opengl, video, counter, frame, detector,
                   sink, display, s>>

(***************************************************************************)
(* The recording sink.  VideoSinkCV::create may return null, and begin()    *)
(* may fail, in which case the sink never comes to record.                 *)
(***************************************************************************)
\* The geometry given to the sink: sink->setProperties({cols, rows}).
SinkGeometryDefault(f) == <<DefaultWidth, DefaultHeight>>
SinkGeometry(f) == <<f.cols, f.rows>>

CreateSink ==
    /\ pc = "sink"
    /\ IF args.doMovie
       THEN \E created \in BOOLEAN, began \in BOOLEAN :
              IF created
              THEN /\ sink' = IF began THEN "recording" ELSE "unopened"
                   /\ log' = log \o
                        << Op("VideoSinkCV", 1, 0),
                           Op("setProperties", SinkGeometry(frame)[1],
                                               SinkGeometry(frame)[2]),
                           Op("begin", IF began THEN 1 ELSE 0, 0) >>
              ELSE /\ sink' = "null"
                   /\ log' = Append(log, Op("VideoSinkCV", 0, 0))
       ELSE UNCHANGED <<sink, log>>
    /\ pc' = "display"
    /\ UNCHANGED <<args, status, opengl, video, counter, frame, detector,
                   display, s>>

CreateDisplay ==
    /\ pc = "display"
    /\ display' = args.doWindow
    /\ log' = IF args.doWindow
              THEN Append(log, Op("Disp", frame.cols, frame.rows))
              ELSE log
    /\ pc' = "run"
    /\ UNCHANGED <<args, status, opengl, video, counter, frame, detector,
                   sink, s>>

(***************************************************************************)
(* The per-frame callback.                                                 *)
(***************************************************************************)
\* VideoSinkCV::good: true only while the sink records.
good(snk) == snk = "recording"

\* The condition under which render forwards the pixels: sink && sink->good().
SinkWritableNoGood(attached, healthy) == attached
SinkWritableNegated(attached, healthy) == attached /\ ~healthy
SinkWritableAlways(attached, healthy) == TRUE
SinkWritable(attached, healthy) == attached /\ healthy

\* counter++ of the pull in render.
CounterAfterPullOnSuccess(c, f) == IF IsEmpty(f) THEN c ELSE c + 1
CounterAfterPullSkip(c, f) == c + 2
CounterAfterPull(c, f) == c + 1

\* render(): the state after one invocation and what it returned.  written
\* tells whether the sink took the frame, when one is written.
render(written) ==
    LET f == Pull(video, counter)
        pulled == Append(log, Op("pull", counter, f.idx))
        analysed == pulled \o << Op("upload", f.idx, f.cols),
                                 Op("process", f.idx, f.cols) >>
        shown == IF display
                 THEN Append(analysed, Op("display", f.idx, 0))
                 ELSE analysed
        checked == IF sink # "null"
                   THEN Append(shown, Op("good", IF good(sink) THEN 1 ELSE 0, 0))
                   ELSE shown
        forward == SinkWritable(sink # "null", sink # "null" /\ good(sink))
        sunk == IF forward
                THEN checked \o << Op("getOutputPixels", f.idx, 0),
                                   Op("write", f.idx, IF written THEN 1 ELSE 0) >>
                ELSE checked
    IN  IF IsEmpty(f)
        THEN [frame |-> f, counter |-> CounterAfterPull(counter, f),
              detector |-> detector, sink |-> sink,
              log |-> Append(pulled, Op("return", 0, 0)), result |-> FALSE]
        ELSE [frame |-> f, counter |-> CounterAfterPull(counter, f),
              detector |-> f.idx,
              sink |-> IF forward /\ sink = "recording" /\ ~written
                       THEN "failed" ELSE sink,
              log |-> Append(sunk, Op("return", 1, 0)), result |-> TRUE]

\* opengl(render): hand the callback to the context.
Run ==
    /\ pc = "run"
    /\ opengl' = [opengl EXCEPT !.state = "Running"]
    /\ pc' = "loop"
    /\ UNCHANGED <<args, status, video, counter, frame, detector, sink,
                   display, s, log>>

Invoke(r, continue) ==
    /\ frame' = r.frame
    /\ counter' = r.counter
    /\ detector' = r.detector
    /\ sink' = r.sink
    /\ log' = r.log
    /\ IF continue
       THEN UNCHANGED <<pc, opengl>>
       ELSE /\ pc' = "teardown"
            /\ opengl' = [opengl EXCEPT !.state = "Stopped"]
    /\ UNCHANGED <<args, status, video, display, s>>

\* while(render());
LoopContinuesAlways(result) == TRUE
LoopContinues(result) == result

HeadlessIterate ==
    /\ pc = "loop"
    /\ opengl.kind = "headless"
    /\ counter <= MaxFrames + 1
    /\ \E written \in BOOLEAN :
         LET r == render(written) IN Invoke(r, LoopContinues(r.result))

\* (*window)(render): the window's event loop calls render once per refresh
\* and ends when render returns false.
WindowIterate ==
    /\ pc = "loop"
    /\ opengl.kind = "window"
    /\ counter <= MaxFrames + 1
    /\ \E written \in BOOLEAN :
         LET r == render(written) IN Invoke(r, r.result)

\* The window system closes the window: the event loop ends.
WindowClose ==
    /\ pc = "loop"
    /\ opengl.kind = "window"
    /\ pc' = "teardown"
    /\ opengl' = [opengl EXCEPT !.state = "Stopped"]
    /\ log' = Append(log, Op("close", 0, 0))
    /\ UNCHANGED <<args, status, video, counter, frame, detector, sink,
                   display, s>>

(***************************************************************************)
(* Teardown: end the sink and wait for its completion notification.        *)
(***************************************************************************)
\* drishti::core::Semaphore s(0)
SemaphoreOne == 0 + 1
Semaphore == 0

\* if(sink) of the teardown.
HasSinkAlways(snk) == TRUE
HasSinkWhenGood(snk) == snk # "null" /\ good(snk)
HasSink(snk) == snk # "null"

Teardown ==
    /\ pc = "teardown"
    /\ IF HasSink(sink)
       THEN /\ s' = Semaphore
            /\ sink' = "finalizing"
            /\ log' = Append(log, Op("end", 0, 0))
            /\ pc' = "wait"
            /\ UNCHANGED status
       ELSE /\ Return(StatusOk)
            /\ UNCHANGED <<s, sink, log>>
    /\ UNCHANGED <<args, opengl, video, counter, frame, detector, display>>

\* s.wait() is entered.
WaitEnter ==
    /\ pc = "wait"
    /\ pc' = "waiting"
    /\ log' = Append(log, Op("wait", 0, 0))
    /\ UNCHANGED <<args, status, opengl, video, counter, frame, detector,
                   sink, display, s>>

\* s.wait() returns once the count is positive, and drishti_main returns.
WaitReturn ==
    /\ pc = "waiting"
    /\ s > 0
    /\ s' = s - 1
    /\ log' = Append(log, Op("waitReturn", 0, 0))
    /\ Return(StatusOk)
    /\ UNCHANGED <<args, opengl, video, counter, frame, detector, sink,
                   display>>

\* The sink's finalization thread finishes the movie and calls the
\* completion handler [&]{ s.signal(); } once.
SinkFinalize ==
    /\ sink = "finalizing"
    /\ sink' = "closed"
    /\ s' = s + 1
    /\ log' = Append(log, Op("signal", 0, 0))
    /\ UNCHANGED <<args, pc, status, opengl, video, counter, frame, detector,
                   display>>

Next ==
    \/ ParseArguments
    \/ CheckOutput
    \/ CheckInput
    \/ CheckModels
    \/ CreateContext
    \/ OpenVideo
    \/ FirstPull
    \/ Resize
    \/ Activate
    \/ AllocateDetector
    \/ CreateSink
    \/ CreateDisplay
    \/ Run
    \/ HeadlessIterate
    \/ WindowIterate
    \/ WindowClose
    \/ Teardown
    \/ WaitEnter
    \/ WaitReturn
    \/ SinkFinalize

Spec == Init /\ [][Next]_vars

\* The steps of the main thread under the headless strategy.  The thread
\* runs on: a step of it that stays possible is eventually taken.  Nothing
\* is assumed of the window system's pacing or of when, if ever, the sink's
\* finalization thread calls the completion handler.
MainThread ==
    \/ ParseArguments
    \/ CheckOutput
    \/ CheckInput
    \/ CheckModels
    \/ CreateContext
    \/ OpenVideo
    \/ FirstPull
    \/ Resize
    \/ Activate
    \/ AllocateDetector
    \/ CreateSink
    \/ CreateDisplay
    \/ Run
    \/ HeadlessIterate
    \/ Teardown
    \/ WaitEnter
    \/ WaitReturn

FairSpec == Spec /\ WF_vars(MainThread)

(***************************************************************************)
(* Reading the log.                                                        *)
(***************************************************************************)
Ops(name) == SelectSeq(log, LAMBDA e : e.op = name)

Count(name) == Len(Ops(name))

\* The position in log of the first call of that name, 0 when there is none.
Pos(name) ==
    IF Count(name) = 0 THEN 0
    ELSE CHOOSE i \in 1..Len(log) :
           /\ log[i].op = name
           /\ \A j \in 1..(i - 1) : log[j].op # name

\* The position in log of the last call of that name, 0 when there is none.
LastPos(name) ==
    IF Count(name) = 0 THEN 0
    ELSE CHOOSE i \in 1..Len(log) :
           /\ log[i].op = name
           /\ \A j \in (i + 1)..Len(log) : log[j].op # name

\* The loop has ended because render returned false.
Exhausted == opengl.state = "Stopped" /\ Count("close") = 0

\* A sink object exists or has existed in this run.
SinkCreated == Count("setProperties") > 0

BeginSucceeded == Count("begin") = 1 /\ Ops("begin")[1].a = 1

BeginFailed == Count("begin") = 1 /\ Ops("begin")[1].a = 0

(***************************************************************************)
(* C1.  On a source of N >= 1 frames the callback is invoked N + 1 times:  *)
(* its first N invocations return true, the next one pulls the empty       *)
(* frame and returns false, and no invocation follows one that returned    *)
(* false.  The count N + 1 is reached when the loop ended on that false.   *)
(***************************************************************************)
C1_CallbackInvocations ==
    LET r == Ops("return") IN
    /\ \A i \in 1..Len(r) :
         /\ r[i].a = 1 => i <= video.n
         /\ r[i].a = 0 => i = video.n + 1 /\ i = Len(r)
    /\ (Exhausted /\ video.n >= 1) =>
         /\ Len(r) = video.n + 1
         /\ r[Len(r)].a = 0
         /\ Ops("pull")[Count("pull")].b = Empty.idx

C1_Witness ==
    /\ pc = "done"
    /\ opengl.kind = "headless"
    /\ video.n = 2
    /\ Count("return") = 3
    /\ Ops("return")[3].a = 0

(***************************************************************************)
(* C2.  As claimed: once the loop has stopped on a source of N frames the  *)
(* frame counter equals N.                                                 *)
(***************************************************************************)
C2_CounterEqualsFrames == Exhausted => counter = video.n

(***************************************************************************)
(* C2, amended.  The counter is incremented once per pull of the callback, *)
(* the terminal empty pull included, and not by the pull that retrieves    *)
(* the first frame before the loop: it equals the number of callback       *)
(* invocations, and N + 1 once the loop has stopped on render's false.     *)
(***************************************************************************)
C2_CounterCountsCallbackPulls ==
    /\ counter = Count("return")
    /\ Count("pull") >= 1 => counter = Count("pull") - 1
    /\ Exhausted => counter = video.n + 1

C2_Witness ==
    /\ Exhausted
    /\ video.n = 3
    /\ counter = 4

(***************************************************************************)
(* C3.  As claimed: a headless run without a sink over N >= 1 frames makes *)
(* N + 1 pulls in all, N with a frame and one empty, and returns 0.        *)
(***************************************************************************)
FramePulls == Len(SelectSeq(log, LAMBDA e : e.op = "pull" /\ e.b >= 0))

EmptyPulls == Len(SelectSeq(log, LAMBDA e : e.op = "pull" /\ e.b < 0))

PlainRunDone ==
    /\ pc = "done"
    /\ ~args.doWindow
    /\ ~SinkCreated
    /\ video.n >= 1

C3_PullsOnePerFrame ==
    PlainRunDone =>
        /\ Count("pull") = video.n + 1
        /\ FramePulls = video.n
        /\ EmptyPulls = 1
        /\ status = StatusOk

(***************************************************************************)
(* C3, amended.  Such a run makes N + 2 pulls: the pull of frame 0 that    *)
(* sizes the context, then the N + 1 pulls of the loop, of which N return  *)
(* a frame and the last is empty; it returns 0.                            *)
(***************************************************************************)
C3_PullsWithProbe ==
    PlainRunDone =>
        /\ Count("pull") = video.n + 2
        /\ FramePulls = video.n + 1
        /\ EmptyPulls = 1
        /\ Count("return") = video.n + 1
        /\ status = StatusOk

C3_Witness ==
    /\ PlainRunDone
    /\ ~args.doMovie
    /\ video.n = 3
    /\ Count("pull") = 5

(***************************************************************************)
(* C4.  On a source without frames the run pulls once, never resizes the   *)
(* context, never invokes the callback, never touches a sink, and returns  *)
(* -1, which is neither 0 nor the status 1 of a configuration error.       *)
(***************************************************************************)
NoFrameSource == Count("create") = 1 /\ video.n = 0

C4_NoFrames ==
    NoFrameSource =>
        /\ Count("pull") <= 1
        /\ Count("resize") = 0
        /\ Count("return") = 0
        /\ opengl.state = "Ready"
        /\ sink = "null"
        /\ Count("VideoSinkCV") = 0
        /\ Count("begin") = 0
        /\ Count("end") = 0
        /\ pc = "done" =>
             /\ Count("pull") = 1
             /\ status = StatusNoFrames
             /\ status # StatusConfigError
             /\ status # StatusOk

C4_Witness ==
    /\ NoFrameSource
    /\ args.inputExists
    /\ args.doMovie
    /\ pc = "done"
    /\ status = StatusNoFrames

(***************************************************************************)
(* C5.  As claimed: when the output directory is unspecified, absent or    *)
(* unwritable, the input path unspecified or absent, or one of the four    *)
(* models unspecified or absent, the run creates no render context, pulls  *)
(* no frame, never starts the loop and returns a non-zero status.  Stated  *)
(* for runs that get to the argument checks and for input paths without    *)
(* the ".test" marker.                                                     *)
(***************************************************************************)
BadOutput == args.sOutput = <<>> \/ ~args.dirOk

BadInput == args.sInput = <<>> \/ ~args.inputExists

BadModel == \E i \in 1..4 : args.models[i] # "present"

C5_NoRunOnBadArguments ==
    ( /\ ~args.showHelp
      /\ Find(args.sInput, Marker) = Npos
      /\ BadOutput \/ BadInput \/ BadModel ) =>
        /\ Count("GLResource") = 0
        /\ Count("pull") = 0
        /\ opengl.state = "Uninitialized"
        /\ pc = "done" => status # StatusOk

(***************************************************************************)
(* C6.  With a sink, end is called at most once, the semaphore starts at   *)
(* 0 and is signalled once, by the completion notification, and the wait   *)
(* returns only after that signal, whether the notification fires before   *)
(* or after the wait is entered; the run returns only after it.            *)
(***************************************************************************)
C6_WaitAfterNotification ==
    /\ Count("end") <= 1
    /\ Count("signal") <= 1
    /\ Count("waitReturn") <= 1
    /\ Count("signal") = 1 => Count("end") = 1 /\ Pos("end") < Pos("signal")
    /\ (Count("end") = 1 /\ Count("signal") = 0) => s = 0
    /\ Count("end") = 1 => s = Count("signal") - Count("waitReturn")
    /\ Count("waitReturn") = 1 =>
         /\ Count("signal") = 1
         /\ Pos("signal") < Pos("waitReturn")
         /\ Pos("wait") < Pos("waitReturn")
    /\ (pc = "done" /\ SinkCreated) =>
         /\ Count("end") = 1
         /\ Count("signal") = 1
         /\ Count("waitReturn") = 1

\* The notification fired before the wait was entered, and the run returned.
C6_Witness ==
    /\ pc = "done"
    /\ SinkCreated
    /\ Count("signal") = 1
    /\ Pos("signal") < Pos("wait")
    /\ Pos("wait") < Pos("waitReturn")

(***************************************************************************)
(* C7.  With a sink whose begin() succeeded and that took every write,     *)
(* the k-th write carries the output of the k-th frame the callback        *)
(* pulled, one write per such frame: N writes once the source is           *)
(* exhausted.  All writes precede the one end, and one wait follows it     *)
(* and returns before the run does.                                        *)
(***************************************************************************)
Healthy ==
    /\ BeginSucceeded
    /\ \A i \in 1..Count("write") : Ops("write")[i].b = 1

C7_WritesInPullOrder ==
    Healthy =>
        /\ Count("write") = Count("process")
        /\ Count("write") = Count("getOutputPixels")
        /\ \A k \in 1..Count("write") :
             /\ Ops("write")[k].a = k - 1
             /\ Ops("write")[k].a = Ops("pull")[k + 1].b
             /\ Ops("write")[k].a = Ops("process")[k].a
        /\ Exhausted => Count("write") = video.n
        /\ Count("end") <= 1
        /\ Count("end") = 1 => LastPos("write") < Pos("end")
        /\ pc = "done" =>
             /\ Count("end") = 1
             /\ Count("wait") = 1
             /\ Count("waitReturn") = 1
             /\ Pos("end") < Pos("wait")
             /\ Pos("wait") < Pos("waitReturn")
             /\ status = StatusOk

C7_Witness ==
    /\ pc = "done"
    /\ Healthy
    /\ Exhausted
    /\ video.n = 3
    /\ Count("write") = 3

(***************************************************************************)
(* C8.  With a sink whose begin() failed nothing is written, every frame   *)
(* is still pulled, uploaded and analysed, and the pulls, uploads,         *)
(* analyses, display renders and callback returns are those of the run     *)
(* without a sink over the same source, as is the status 0.                *)
(***************************************************************************)
\* What one invocation of render does on frame i when no sink is attached.
PlainCallback(v, disp, i) ==
    IF i < v.n
    THEN << Op("pull", i, i), Op("upload", i, v.cols), Op("process", i, v.cols) >>
         \o (IF disp THEN << Op("display", i, 0) >> ELSE << >>)
         \o << Op("return", 1, 0) >>
    ELSE << Op("pull", i, Empty.idx), Op("return", 0, 0) >>

RECURSIVE PlainCallbacks(_, _, _)
PlainCallbacks(v, disp, k) ==
    IF k = 0 THEN << >>
    ELSE PlainCallbacks(v, disp, k - 1) \o PlainCallback(v, disp, k - 1)

PipelineOps ==
    SelectSeq(log, LAMBDA e :
        e.op \in {"pull", "upload", "process", "display", "return"})

\* The pipeline operations of this run are those of a run without a sink.
AsWithoutSink ==
    /\ Count("pull") >= 1 =>
         PipelineOps = << Op("pull", 0, Pull(video, 0).idx) >>
                       \o PlainCallbacks(video, display, Count("return"))
    /\ pc = "done" /\ video.n >= 1 => status = StatusOk

C8_BeginFailure ==
    /\ BeginFailed =>
         /\ Count("write") = 0
         /\ Count("getOutputPixels") = 0
         /\ AsWithoutSink
         /\ Exhausted =>
              /\ Count("upload") = video.n
              /\ Count("process") = video.n
              /\ Count("pull") = video.n + 2
    /\ ~SinkCreated => AsWithoutSink

C8_Witness ==
    /\ pc = "done"
    /\ BeginFailed
    /\ Exhausted
    /\ video.n = 2
    /\ Count("process") = 2
    /\ status = StatusOk

(***************************************************************************)
(* C9.  When no sink is attached, because no movie was asked for or        *)
(* because the sink could not be created, getOutputPixels is never called. *)
(***************************************************************************)
C9_NoExtractWithoutSink ==
    ~SinkCreated => Count("getOutputPixels") = 0 /\ Count("write") = 0

C9_Witness ==
    /\ pc = "done"
    /\ args.doMovie
    /\ ~SinkCreated
    /\ Count("VideoSinkCV") = 1
    /\ Count("process") = 2

(***************************************************************************)
(* C10.  Once good() has answered false at a frame, nothing is written     *)
(* for that frame or any later one; that frame and the later ones are      *)
(* still uploaded, analysed and, with a display, displayed, and the        *)
(* callback returns true for them.                                         *)
(***************************************************************************)
\* The frames of the source that render has pulled so far.
Rendered == Count("return") - EmptyPulls

C10_NoWriteOnceBad ==
    /\ \A p \in 1..Len(log) :
         (log[p].op = "good" /\ log[p].a = 0) =>
            /\ \A q \in (p + 1)..Len(log) :
                 /\ log[q].op # "write"
                 /\ log[q].op # "getOutputPixels"
                 /\ log[q].op = "good" => log[q].a = 0
            /\ log[p + 1] = Op("return", 1, 0)
            /\ log[p - 1].op = IF display THEN "display" ELSE "process"
    /\ SinkCreated =>
         /\ Count("upload") = Rendered
         /\ Count("process") = Rendered
         /\ Count("good") = Rendered
         /\ Count("display") = IF display THEN Rendered ELSE 0
         /\ \A k \in 1..Rendered :
              /\ Ops("upload")[k].a = k - 1
              /\ Ops("process")[k].a = k - 1
              /\ Ops("return")[k].a = 1

\* The sink failed in mid-stream, and the run went on to its end.
C10_Witness ==
    /\ pc = "done"
    /\ Exhausted
    /\ display
    /\ video.n = 3
    /\ Count("write") = 1
    /\ Ops("write")[1].b = 0
    /\ Count("process") = 3
    /\ Count("display") = 3

(***************************************************************************)
(* C11.  Frames are processed in strictly increasing index order, none     *)
(* skipped and none twice: the uploads and the analyses are those of       *)
(* frames 0, 1, 2, ... in that order, every step of a frame i precedes     *)
(* the pull of any frame j > i, and once the source is exhausted every     *)
(* index 0..N-1 has been uploaded and analysed exactly once.               *)
(***************************************************************************)
FrameSteps == {"upload", "process", "display", "getOutputPixels", "write"}

\* The number of calls of that name made on frame i.
CountOn(name, i) ==
    Len(SelectSeq(log, LAMBDA e : e.op = name /\ e.a = i))

\* The number of callback returns logged before position q.
ReturnsBefore(q) ==
    Len(SelectSeq(SubSeq(log, 1, q - 1), LAMBDA e : e.op = "return"))

C11_FramesInOrder ==
    /\ Count("upload") = Count("process")
    /\ \A k \in 1..Count("upload") :
         /\ Ops("upload")[k].a = k - 1
         /\ Ops("process")[k].a = k - 1
    /\ \A q \in 1..Len(log) :
         (log[q].op = "pull" /\ log[q].b >= 1) =>
            LET j == log[q].b IN
            /\ ReturnsBefore(q) = j
            /\ \A i \in 0..(j - 1) :
                 /\ CountOn("upload", i) = 1
                 /\ CountOn("process", i) = 1
            /\ \A p \in 1..Len(log) :
                 (log[p].op \in FrameSteps /\ log[p].a < j) => p < q
            /\ \A p \in 1..Len(log) :
                 (log[p].op \in FrameSteps /\ log[p].a >= j) => p > q
    /\ Exhausted =>
         \A i \in 0..(video.n - 1) :
            /\ CountOn("upload", i) = 1
            /\ CountOn("process", i) = 1

C11_Witness ==
    /\ pc = "done"
    /\ Exhausted
    /\ video.n = 3
    /\ display
    /\ Healthy
    /\ CountOn("write", 2) = 1

(***************************************************************************)
(* C12.  The render context is created before any GPU resource (the face   *)
(* finder, the display processor, a texture) and made current before the   *)
(* first upload or analysis; the first frame is pulled before the context  *)
(* is resized, and the resize is given that frame's width and height.      *)
(***************************************************************************)
GpuCalls == {"FaceFinderPainter", "Disp", "upload", "process", "display"}

C12_ContextBeforeGpuWork ==
    /\ Count("GLResource") <= 1
    /\ Count("resize") <= 1
    /\ \A p \in 1..Len(log) :
         log[p].op \in GpuCalls =>
            /\ Count("GLResource") = 1
            /\ Pos("GLResource") < p
            /\ opengl.kind # "none"
    /\ \A p \in 1..Len(log) :
         log[p].op \in {"upload", "process"} =>
            /\ Count("makeCurrent") >= 1
            /\ Pos("makeCurrent") < p
            /\ opengl.current
    /\ Count("resize") = 1 =>
         /\ Pos("pull") < Pos("resize")
         /\ Ops("pull")[1].b >= 0
         /\ Ops("resize")[1].a = Pull(video, Ops("pull")[1].b).cols
         /\ Ops("resize")[1].b = Pull(video, Ops("pull")[1].b).rows
         /\ opengl.kind = "window" =>
              /\ opengl.cols = Pull(video, 0).cols
              /\ opengl.rows = Pull(video, 0).rows

\* A window first created 640 by 480 has taken the size of a smaller frame.
C12_Witness ==
    /\ pc = "done"
    /\ opengl.kind = "window"
    /\ video.cols = 320
    /\ Count("resize") = 1
    /\ opengl.cols = 320
    /\ Count("process") >= 1

(***************************************************************************)
(* C13.  Every invocation of the callback pulls by the current counter     *)
(* value; when the frame is empty it returns false and does nothing else;  *)
(* otherwise it uploads the frame, analyses it, renders it to the display  *)
(* when there is one, hands the pixels to the sink when there is one and   *)
(* it is good, and returns true, in that order.                            *)
(***************************************************************************)
\* What an invocation that pulls frame i logs after its pull, given whether
\* a sink is attached and what good() answered.
StepsAfterPull(i, attached, healthy) ==
    IF i < 0 THEN << "return" >>
    ELSE << "upload", "process" >>
         \o (IF display THEN << "display" >> ELSE << >>)
         \o (IF attached THEN << "good" >> ELSE << >>)
         \o (IF attached /\ healthy
             THEN << "getOutputPixels", "write" >> ELSE << >>)
         \o << "return" >>

\* The position of the return that ends the invocation whose pull is at q.
ReturnAfter(q) ==
    CHOOSE p \in (q + 1)..Len(log) :
        /\ log[p].op = "return"
        /\ \A r \in (q + 1)..(p - 1) : log[r].op # "return"

\* Whether good() was asked, and answered true, between positions q and p.
GoodBetween(q, p) ==
    \E r \in (q + 1)..(p - 1) : log[r].op = "good" /\ log[r].a = 1

C13_CallbackOrder ==
    \A q \in 1..Len(log) :
       (log[q].op = "pull" /\ q # Pos("pull")) =>
          LET i == log[q].b
              p == ReturnAfter(q)
              steps == StepsAfterPull(i, SinkCreated, GoodBetween(q, p))
          IN  /\ log[q].a = ReturnsBefore(q)
              /\ \E r \in (q + 1)..Len(log) : log[r].op = "return"
              /\ p = q + Len(steps)
              /\ \A k \in 1..Len(steps) :
                   /\ log[q + k].op = steps[k]
                   /\ steps[k] \in FrameSteps => log[q + k].a = i
              /\ log[p].a = IF i < 0 THEN 0 ELSE 1

C13_Witness ==
    /\ pc = "done"
    /\ Exhausted
    /\ display
    /\ video.n = 2
    /\ Count("write") = 1
    /\ Ops("write")[1].b = 0
    /\ Count("good") = 2

(***************************************************************************)
(* C14.  At most one sink is created in a run, and the calls made on it    *)
(* are setProperties, begin, any number of writes, end, in that order:     *)
(* the geometry is set once, before begin, to the width and height of the  *)
(* first frame; begin is called once; every write comes after begin and    *)
(* before end.                                                             *)
(***************************************************************************)
C14_SinkCallOrder ==
    /\ Count("VideoSinkCV") <= 1
    /\ Count("setProperties") <= 1
    /\ Count("begin") <= 1
    /\ Count("end") <= 1
    /\ Count("begin") = Count("setProperties")
    /\ Count("setProperties") = 1 =>
         /\ Ops("VideoSinkCV")[1].a = 1
         /\ Pos("VideoSinkCV") < Pos("setProperties")
         /\ Pos("setProperties") < Pos("begin")
         /\ Ops("setProperties")[1].a = Pull(video, 0).cols
         /\ Ops("setProperties")[1].b = Pull(video, 0).rows
    /\ \A p \in 1..Len(log) :
         log[p].op = "write" =>
            /\ Count("begin") = 1
            /\ Pos("begin") < p
            /\ Count("end") = 1 => p < Pos("end")
    /\ Count("end") = 1 => Count("begin") = 1 /\ Pos("begin") < Pos("end")

C14_Witness ==
    /\ pc = "done"
    /\ video.cols = 320
    /\ Count("setProperties") = 1
    /\ Ops("setProperties")[1].a = 320
    /\ Count("write") = 2
    /\ Count("end") = 1

(***************************************************************************)
(* C15.  When a movie is asked for and VideoSinkCV::create returns null,   *)
(* the run goes on: setProperties, begin, write and end are never called   *)
(* and nothing is waited for, the frames are pulled and analysed, all N    *)
(* of them once the source is exhausted, and the run returns 0.            *)
(***************************************************************************)
SinkCreationFailed ==
    /\ args.doMovie
    /\ Count("VideoSinkCV") = 1
    /\ Ops("VideoSinkCV")[1].a = 0

C15_NullSinkIsNotFatal ==
    SinkCreationFailed =>
        /\ sink = "null"
        /\ Count("setProperties") = 0
        /\ Count("begin") = 0
        /\ Count("good") = 0
        /\ Count("write") = 0
        /\ Count("end") = 0
        /\ Count("wait") = 0
        /\ Count("signal") = 0
        /\ s = "none"
        /\ Count("process") = Rendered
        /\ Exhausted =>
             /\ FramePulls = video.n + 1
             /\ Count("upload") = video.n
             /\ Count("process") = video.n
        /\ pc = "done" => status = StatusOk

C15_Witness ==
    /\ SinkCreationFailed
    /\ pc = "done"
    /\ Exhausted
    /\ video.n = 3
    /\ Count("process") = 3
    /\ status = StatusOk

(***************************************************************************)
(* C16.  Under the headless strategy the loop, once entered, eventually    *)
(* stops.  The run then eventually returns when there is no sink or once   *)
(* the sink has fired its completion notification; as long as the          *)
(* notification has not fired, a run that has entered the wait stays in    *)
(* it and does not return.                                                 *)
(***************************************************************************)
Headless == opengl.kind = "headless"

Notified == Count("signal") = 1

C16_HeadlessTerminates ==
    /\ (Headless /\ pc = "loop") ~> (opengl.state = "Stopped")
    /\ (Headless /\ opengl.state = "Stopped" /\ (~SinkCreated \/ Notified))
          ~> (pc = "done")
    /\ [][(pc = "waiting" /\ ~Notified /\ ~Notified') => pc' = "waiting"]_vars
    /\ []((pc = "done" /\ SinkCreated) => Notified)

\* A headless run was blocked in the wait until the notification came.
C16_Witness ==
    /\ Headless
    /\ pc = "done"
    /\ video.n = 3
    /\ SinkCreated
    /\ Pos("wait") < Pos("signal")
    /\ Pos("signal") < Pos("waitReturn")

(***************************************************************************)
(* C17.  As claimed: the existence check of the input path is bypassed     *)
(* exactly for the paths that carry the ".test" marker.  With the output   *)
(* directory and the models in order and an input path that names no       *)
(* file, the run gets past the argument checks and creates the render      *)
(* context when the path contains the marker, and otherwise ends with      *)
(* status 1 without creating it.                                           *)
(***************************************************************************)
PastArgumentChecks ==
    pc \notin {"parse", "checkOutput", "checkInput", "checkModels", "context"}

C17_BypassExactlyForMarker ==
    ( /\ ~args.showHelp
      /\ ~BadOutput
      /\ ~BadModel
      /\ args.sInput # <<>>
      /\ ~args.inputExists
      /\ PastArgumentChecks ) =>
        IF Find(args.sInput, Marker) # Npos
        THEN Count("GLResource") = 1
        ELSE /\ pc = "done"
             /\ status = StatusConfigError
             /\ Count("GLResource") = 0

(***************************************************************************)
(* C18.  The indices asked of the frame source are 0, 0, 1, 2, ...: the    *)
(* pull before the loop asks for index 0 and leaves the counter at 0, the  *)
(* first invocation of the callback asks for 0 again, every invocation     *)
(* advances the counter by one, the one that pulls the empty frame         *)
(* included, and the indices never decrease.  On N >= 1 frames a loop      *)
(* that ends on the empty pull has asked for 0, 0, 1, ..., N.              *)
(***************************************************************************)
Requested == [k \in 1..Count("pull") |-> Ops("pull")[k].a]

C18_RequestedIndices ==
    /\ \A k \in 1..Len(Requested) :
         Requested[k] = IF k = 1 THEN 0 ELSE k - 2
    /\ \A k \in 1..(Len(Requested) - 1) : Requested[k] <= Requested[k + 1]
    /\ (pc = "resize" /\ Count("pull") = 1) => counter = 0
    /\ Count("pull") >= 1 => counter = Count("pull") - 1
    /\ (Exhausted /\ video.n >= 1) =>
         /\ Len(Requested) = video.n + 2
         /\ Requested[Len(Requested)] = video.n
         /\ counter = video.n + 1

C18_Witness ==
    /\ pc = "done"
    /\ Exhausted
    /\ video.n = 3
    /\ Requested = <<0, 0, 1, 2, 3>>
    /\ counter = 4

(***************************************************************************)
(* C19.  When a sink object was created, end is called on it exactly once, *)
(* after the loop has stopped and after every callback invocation,         *)
(* whether or not begin succeeded and whatever good() answers, and the     *)
(* run then waits for the completion notification before it returns.       *)
(* When no sink object exists, end is never called and nothing is waited   *)
(* for.                                                                    *)
(***************************************************************************)
AfterLoop == pc \in {"wait", "waiting", "done"}

C19_EndOnceAfterLoop ==
    /\ Count("end") <= 1
    /\ (SinkCreated /\ AfterLoop) => Count("end") = 1
    /\ Count("end") = 1 =>
         /\ SinkCreated
         /\ opengl.state = "Stopped"
         /\ LastPos("return") < Pos("end")
         /\ LastPos("write") < Pos("end")
         /\ Count("wait") = 1 => Pos("end") < Pos("wait")
    /\ (SinkCreated /\ pc = "done") =>
         /\ Count("wait") = 1
         /\ Count("waitReturn") = 1
         /\ Pos("signal") < Pos("waitReturn")
    /\ ~SinkCreated =>
         /\ Count("end") = 0
         /\ Count("wait") = 0
         /\ s = "none"

\* A sink whose begin() failed is ended and waited for all the same.
C19_Witness ==
    /\ pc = "done"
    /\ BeginFailed
    /\ Count("write") = 0
    /\ Count("end") = 1
    /\ Count("waitReturn") = 1
    /\ video.n = 2

====
